---------------------------- MODULE Spec2Model ----------------------------
(***************************************************************************)
(* MaYaRa radar playback plugin: the playback scheduler (class MrrPlayer)  *)
(* and the HTTP control surface that owns the plugin's single `player`     *)
(* variable (src/plugin/index.js).                                         *)
(*                                                                         *)
(* Node runs every handler (a route handler up to its first timer wait, a  *)
(* timer callback, the continuation of an await on an already settled      *)
(* promise) to completion, so each of them is one action.  Time is not     *)
(* modelled: any pending timer may be the next one to fire.                *)
(***************************************************************************)
EXTENDS Integers, Sequences, FiniteSets

\* ------------------------------------------------------------------ bounds
\* Number of MrrPlayer instances the plugin may construct in one run.
MaxPlayers == 3
\* Largest number of frames in a recording.
MaxLen == 2
\* Largest frame timestamp (ms); timestamps are unsigned.
MaxTs == 2
\* Largest header version tried (with 256, whose low byte is 0).
MaxVersion == 2

\* ------------------------------------------------------- program constants
\* Grace delay before a looping recording restarts (ms).
RestartDelay == 100
\* Lower clamp of the inter-frame delay (ms).
MinDelay == 1

\* ------------------------------------------------------------------- state
VARIABLES
    players,       \* every MrrPlayer constructed so far, by instance number
    player,        \* the plugin's `player` variable: 0 (null) or an instance
    loadWaits,     \* load handlers suspended in their 100 ms cleanup wait
    op,            \* the handler this step ran
    res,           \* status code of the response this step sent (0: none)
    sink,          \* the emitData() call this step made, and the parity of
                   \* the number of calls made so far
    rd             \* the file being decoded: its MrrReader and what
                   \* MrrPlayer.load() and listRecordings() made of it

vars == <<players, player, loadWaits, op, res, sink, rd>>

Timestamps == 0..MaxTs

\* All sequences over S of length at most n.
SeqsUpTo(S, n) == UNION {[1..k -> S] : k \in 0..n}

\* The frame timestamp lists a decode can produce.
Recordings == SeqsUpTo(Timestamps, MaxLen)

\* What reading and decoding the file gives MrrPlayer.load():
\*   header = FALSE : reader.load() throws (magic, version, JSON blobs)
\*   frames         : the frames decoded before readFrame() returns null or
\*                    throws
\*   truncated      : reading the frame after those threw, so that
\*                    footer.frameCount is larger than their number
Files ==
    {[header |-> FALSE, frames |-> <<>>, truncated |-> FALSE]} \cup
    [header : {TRUE}, frames : Recordings, truncated : BOOLEAN]

\* The files of the plugin-level specification: those of Files whose
\* decoded frames are stamped 1, 2, ... ms.
PluginFiles ==
    {file \in Files : \A i \in 1..Len(file.frames) : file.frames[i] = i}

FileOk(file) == file.header /\ ~file.truncated

\* footer.frameCount of a file whose header and footer parse.
FooterCount(file) == Len(file.frames) + (IF file.truncated THEN 1 ELSE 0)

\* Math.max
MathMax(a, b) == IF a >= b THEN a ELSE b

\* --------------------------------------------------------------- MrrPlayer
\* A constructor that starts with looping off.
MrrPlayer_loopOff ==
    [frames |-> <<>>, frameCount |-> 0, radarId |-> "null",
     playing |-> FALSE, loop |-> FALSE, currentFrame |-> 0, positionMs |-> 0,
     playbackTimer |-> "null", pending |-> <<>>,
     stopped |-> FALSE, cut |-> FALSE, finished |-> FALSE, last |-> -1]

\* new MrrPlayer(app, filePath).  `pending` is the event loop's set of this
\* instance's armed timers, in arming order; `held` marks the one whose
\* handle is stored in playbackTimer.  The last four fields are history:
\* stopped (stop() has run), cut (the last pause() cancelled an armed timer
\* and no play() since), finished (the end-of-recording branch ran and no
\* play() since), last (index of the last frame handed to the sink).
MrrPlayer ==
    [frames |-> <<>>, frameCount |-> 0, radarId |-> "null",
     playing |-> FALSE, loop |-> TRUE, currentFrame |-> 0, positionMs |-> 0,
     playbackTimer |-> "null", pending |-> <<>>,
     stopped |-> FALSE, cut |-> FALSE, finished |-> FALSE, last |-> -1]

\* MrrPlayer.load(): the fields after the call, whether it returned or threw.
load(pl, file) ==
    IF ~file.header THEN pl
    ELSE [pl EXCEPT !.frameCount = FooterCount(file),
                    !.frames = file.frames,
                    !.radarId = IF FileOk(file) THEN "set" ELSE "null"]

\* setTimeout() whose callback is never queued.
setTimeout_lost(pl, kind, delay) ==
    [pl EXCEPT !.playbackTimer = "handle"]

\* setTimeout(callback, delay) assigned to this.playbackTimer.
setTimeout(pl, kind, delay) ==
    [pl EXCEPT !.playbackTimer = "handle",
               !.pending = Append([i \in 1..Len(pl.pending) |->
                                      [pl.pending[i] EXCEPT !.held = FALSE]],
                                  [kind |-> kind, delay |-> delay, held |-> TRUE])]

\* clearTimeout(this.playbackTimer): removes the held timer if still armed.
clearTimeout(pl) ==
    [pl EXCEPT !.pending = SelectSeq(pl.pending, LAMBDA t : ~t.held)]

\* A timer has fired: the event loop drops entry i.
Fired(pl, i) ==
    [pl EXCEPT !.pending = SubSeq(pl.pending, 1, i - 1) \o
                           SubSeq(pl.pending, i + 1, Len(pl.pending))]

\* Result of a call: the instance afterwards, the frame index given to the
\* sink (-1: none), whether it threw.
Result(pl, emit, threw) ==
    [pl |-> pl, emit |-> emit, threw |-> threw]

\* The try block of lines 528-535 without its catch: a throwing sink ends
\* the call.
tryEmit_noCatch(ok) ==
    IF ok THEN "sent" ELSE "escaped"

\* Lines 528-535: emitData(streamId, frame.data) inside try/catch.  ok is
\* whether the sink returns; when it throws, the catch block logs and the
\* function carries on.
tryEmit(ok) ==
    IF ok THEN "sent" ELSE "caught"

\* Deliver with the delay taken from the timestamp delta unclamped.
Deliver_noClamp(pl, ok) ==
    LET frame == pl.frames[pl.currentFrame + 1]
        adv == [pl EXCEPT !.positionMs = frame,
                          !.currentFrame = pl.currentFrame + 1,
                          !.last = pl.currentFrame]
    IN IF adv.currentFrame < Len(adv.frames)
       THEN Result(setTimeout(adv, "frame",
                              adv.frames[adv.currentFrame + 1] - frame),
                   pl.currentFrame, FALSE)
       ELSE IF adv.loop
       THEN Result(setTimeout(adv, "restart", RestartDelay),
                   pl.currentFrame, FALSE)
       ELSE Result([adv EXCEPT !.playing = FALSE, !.finished = TRUE],
                   pl.currentFrame, FALSE)

\* scheduleNextFrame(), lines 524-556: deliver frames[currentFrame], advance,
\* then arm the next delivery, arm the loop restart, or finish.
Deliver(pl, ok) ==
    LET frame == pl.frames[pl.currentFrame + 1]
        adv == [pl EXCEPT !.positionMs = frame,
                          !.currentFrame = pl.currentFrame + 1,
                          !.last = pl.currentFrame]
    IN IF tryEmit(ok) = "escaped"
       THEN Result(pl, pl.currentFrame, TRUE)
       ELSE IF adv.currentFrame < Len(adv.frames)
       THEN LET deltaMs == adv.frames[adv.currentFrame + 1] - frame
            IN Result(setTimeout(adv, "frame", MathMax(MinDelay, deltaMs)),
                      pl.currentFrame, FALSE)
       ELSE IF adv.loop
       THEN Result(setTimeout(adv, "restart", RestartDelay),
                   pl.currentFrame, FALSE)
       ELSE Result([adv EXCEPT !.playing = FALSE, !.finished = TRUE],
                   pl.currentFrame, FALSE)

\* scheduleNextFrame().  At the end with loop set it resets the position and
\* calls itself: with no frames that recursion never ends and the call
\* throws RangeError (stack exhausted) with the position at 0.
scheduleNextFrame(pl, ok) ==
    IF ~pl.playing THEN Result(pl, -1, FALSE)
    ELSE IF pl.currentFrame >= Len(pl.frames)
    THEN IF pl.loop
         THEN LET reset == [pl EXCEPT !.currentFrame = 0, !.positionMs = 0]
              IN IF Len(reset.frames) = 0
                 THEN Result(reset, -1, TRUE)
                 ELSE Deliver(reset, ok)
         ELSE Result([pl EXCEPT !.playing = FALSE, !.finished = TRUE],
                     -1, FALSE)
    ELSE Deliver(pl, ok)

\* play() without its `if (this.playing) return` guard.
play_unguarded(pl, ok) ==
    scheduleNextFrame([pl EXCEPT !.playing = TRUE,
                                 !.cut = FALSE, !.finished = FALSE], ok)

\* play() that starts over from frame 0 instead of the retained index.
play_fromStart(pl, ok) ==
    IF pl.playing THEN Result(pl, -1, FALSE)
    ELSE scheduleNextFrame([pl EXCEPT !.playing = TRUE, !.currentFrame = 0,
                                      !.cut = FALSE, !.finished = FALSE], ok)

\* MrrPlayer.play()
play(pl, ok) ==
    IF pl.playing THEN Result(pl, -1, FALSE)
    ELSE scheduleNextFrame([pl EXCEPT !.playing = TRUE,
                                      !.cut = FALSE, !.finished = FALSE], ok)

\* pause() that clears the flag but leaves the timer armed.
pause_noClear(pl) ==
    [pl EXCEPT !.playing = FALSE, !.cut = FALSE]

\* MrrPlayer.pause()
pause(pl) ==
    LET off == [pl EXCEPT !.playing = FALSE]
    IN IF off.playbackTimer # "null"
       THEN [clearTimeout(off) EXCEPT
                !.playbackTimer = "null",
                !.cut = \E i \in 1..Len(pl.pending) : pl.pending[i].held]
       ELSE [off EXCEPT !.cut = FALSE]

\* stop() that resets the frame index and leaves positionMs alone.
stop_keepsPosition(pl) ==
    [pause(pl) EXCEPT !.currentFrame = 0,
                      !.stopped = TRUE, !.finished = FALSE]

\* stop() that resets the position without calling pause().
stop_noPause(pl) ==
    [pl EXCEPT !.currentFrame = 0, !.positionMs = 0,
               !.stopped = TRUE, !.finished = FALSE]

\* MrrPlayer.stop()
stop(pl) ==
    [pause(pl) EXCEPT !.currentFrame = 0, !.positionMs = 0,
                      !.stopped = TRUE, !.finished = FALSE]

\* `player = null`, or `player` overwritten: the plugin lets go of the
\* instance.  With no timer armed nothing references it any more, no code
\* can read it again, and its recording and settings are forgotten; what
\* stop() or the last call left in its playback fields is kept.
Release(pl) ==
    IF pl.pending # <<>> THEN pl
    ELSE [pl EXCEPT !.frames = <<>>, !.frameCount = 0, !.radarId = "null",
                    !.loop = TRUE, !.last = -1]

\* A loop-restart callback that does nothing.
restart_stalls(pl, ok) ==
    Result(pl, -1, FALSE)

\* The loop-restart timer callback.
restart(pl, ok) ==
    scheduleNextFrame([pl EXCEPT !.currentFrame = 0, !.positionMs = 0], ok)

\* MrrPlayer.getStatus()
getStatus(pl) ==
    [state |-> IF pl.playing THEN "playing"
               ELSE IF pl.currentFrame > 0 THEN "paused" ELSE "loaded",
     positionMs |-> pl.positionMs,
     frame |-> pl.currentFrame,
     frameCount |-> pl.frameCount,
     loopPlayback |-> pl.loop]

\* GET /playback/status
Status ==
    IF player = 0 THEN [state |-> "idle", loopPlayback |-> TRUE]
    ELSE getStatus(players[player])

\* getRadarInfo(radarId), lines 32-50: status and controls.power.
getRadarInfo(pl) ==
    [status |-> IF pl.playing THEN "transmit" ELSE "standby",
     power |-> IF pl.playing THEN 2 ELSE 1]

\* getState(radarId), lines 84-94: status and controls.power.
getState(pl) ==
    [status |-> IF pl.playing THEN "transmit" ELSE "standby",
     power |-> IF pl.playing THEN 2 ELSE 1]

\* getRadars(), lines 25-30: whether the playback radar is listed.
HasRadar == player # 0 /\ players[player].radarId = "set"

\* ------------------------------------------------------------ sink helper
\* emitData(streamId, frame.data) by instance p, when the call made one.
Emit(p, r, ok) ==
    IF r.emit = -1
    THEN [player |-> 0, frame |-> -1, tick |-> sink.tick, ok |-> TRUE]
    ELSE [player |-> p, frame |-> r.emit, tick |-> 1 - sink.tick, ok |-> ok]

\* The step called emitData() for no frame.
NoEmit == [player |-> 0, frame |-> -1, tick |-> sink.tick, ok |-> TRUE]

\* ================================================================ decoder
\* mrr-reader.js.  A buffer is a sequence of bytes; offsets are 0-based as in
\* the code, so the byte at offset o is buf[o + 1].

HEADER_SIZE == 256
FOOTER_SIZE == 32
MRR_VERSION == 1
FRAME_FLAG_HAS_STATE == 1

\* Buffer.from('MRR1'), Buffer.from('MRRF')
MRR_MAGIC == <<77, 82, 82, 49>>
MRR_FOOTER_MAGIC == <<77, 82, 82, 70>>

\* What a Buffer read method gives when it throws ERR_OUT_OF_RANGE.
RangeError == -1

Min(a, b) == IF a <= b THEN a ELSE b

\* Every number from 2^30 up is represented by this one: each of them is
\* larger than any buffer here, and none is used except as an offset, a
\* length, a count or a timestamp.
Huge == 1073741824

\* Little-endian value of the n bytes at offset o.
RECURSIVE LittleEndian(_, _, _)
LittleEndian(buf, o, n) ==
    IF n = 0 THEN 0
    ELSE LET high == LittleEndian(buf, o + 1, n - 1)
         IN IF high >= Huge \div 256 THEN Huge
            ELSE buf[o + 1] + 256 * high

\* buf.readUInt8 / readUInt16LE / readUInt32LE / readBigUInt64LE: the value,
\* or RangeError when the n bytes do not lie inside the buffer.
readUIntLE(buf, offset, n) ==
    IF offset + n > Len(buf) THEN RangeError
    ELSE LittleEndian(buf, offset, n)

readUInt8(buf, offset) == readUIntLE(buf, offset, 1)
readU16(buf, offset) == readUIntLE(buf, offset, 2)
readU32(buf, offset) == readUIntLE(buf, offset, 4)
readU64(buf, offset) == readUIntLE(buf, offset, 8)

\* buf.subarray(start, end): both ends are clamped to the buffer, a negative
\* start counts from the end, an inverted window is empty.  It never throws.
subarray(buf, start, end) ==
    LET s == IF start < 0 THEN MathMax(Len(buf) + start, 0)
             ELSE Min(start, Len(buf))
        e == Min(end, Len(buf))
    IN IF e <= s THEN <<>> ELSE SubSeq(buf, s + 1, e)

\* JSON.parse(buf.toString('utf8')) for text over bytes that are JSON
\* whitespace, '{', '}', the digit '1', or bytes that can start no JSON
\* token (control bytes and the capital letters of the recordings here):
\* the only values are an empty object and a number written with 1s.
JsonWhitespace == {9, 10, 13, 32}

JsonParse(text) ==
    LET solid == {i \in 1..Len(text) : text[i] \notin JsonWhitespace}
    IN IF solid = {} THEN "SyntaxError"
       ELSE LET first == CHOOSE i \in solid : \A j \in solid : i <= j
                last == CHOOSE i \in solid : \A j \in solid : j <= i
            IN IF /\ first < last
                  /\ text[first] = 123 /\ text[last] = 125
                  /\ \A i \in solid : i = first \/ i = last
               THEN "object"
               ELSE IF \A i \in first..last : text[i] = 49
               THEN "number"
               ELSE "SyntaxError"

\* A header or footer that was never assigned (null).
NoHeader ==
    [set |-> FALSE, version |-> 0, flags |-> 0, radarBrand |-> 0,
     spokesPerRev |-> 0, maxSpokeLen |-> 0, pixelValues |-> 0,
     startTimeMs |-> 0, capabilitiesOffset |-> 0, capabilitiesLen |-> 0,
     initialStateOffset |-> 0, initialStateLen |-> 0, framesOffset |-> 0]

NoFooter ==
    [set |-> FALSE, indexOffset |-> 0, indexCount |-> 0, frameCount |-> 0,
     durationMs |-> 0]

\* MrrHeader.fromBuffer() that compares only the low byte of the version.
MrrHeaderFromBuffer_byteVersion(buf) ==
    IF Len(buf) < HEADER_SIZE
    THEN [error |-> "HeaderTooSmall", header |-> NoHeader]
    ELSE IF subarray(buf, 0, 4) # MRR_MAGIC
    THEN [error |-> "BadMagic", header |-> NoHeader]
    ELSE IF readUInt8(buf, 4) > MRR_VERSION
    THEN [error |-> "UnsupportedVersion", header |-> NoHeader]
    ELSE [error |-> "none",
          header |-> [NoHeader EXCEPT
                         !.set = TRUE,
                         !.version = readU16(buf, 4),
                         !.capabilitiesOffset = readU64(buf, 32),
                         !.capabilitiesLen = readU32(buf, 40),
                         !.initialStateOffset = readU64(buf, 44),
                         !.initialStateLen = readU32(buf, 52),
                         !.framesOffset = readU64(buf, 56)]]

\* MrrHeader.fromBuffer(buf): the error thrown ("none": it returned) and the
\* header returned.
MrrHeaderFromBuffer(buf) ==
    IF Len(buf) < HEADER_SIZE
    THEN [error |-> "HeaderTooSmall", header |-> NoHeader]
    ELSE IF subarray(buf, 0, 4) # MRR_MAGIC
    THEN [error |-> "BadMagic", header |-> NoHeader]
    ELSE LET version == readU16(buf, 4)
         IN IF version > MRR_VERSION
            THEN [error |-> "UnsupportedVersion", header |-> NoHeader]
            ELSE [error |-> "none",
                  header |->
                    [set |-> TRUE,
                     version |-> version,
                     flags |-> readU16(buf, 6),
                     radarBrand |-> readU32(buf, 8),
                     spokesPerRev |-> readU32(buf, 12),
                     maxSpokeLen |-> readU32(buf, 16),
                     pixelValues |-> readU32(buf, 20),
                     startTimeMs |-> readU64(buf, 24),
                     capabilitiesOffset |-> readU64(buf, 32),
                     capabilitiesLen |-> readU32(buf, 40),
                     initialStateOffset |-> readU64(buf, 44),
                     initialStateLen |-> readU32(buf, 52),
                     framesOffset |-> readU64(buf, 56)]]

\* MrrFooter.fromBuffer() without its magic check.
MrrFooterFromBuffer_noMagic(buf) ==
    IF Len(buf) < FOOTER_SIZE
    THEN [error |-> "FooterTooSmall", footer |-> NoFooter]
    ELSE [error |-> "none",
          footer |-> [set |-> TRUE,
                      indexOffset |-> readU64(buf, 4),
                      indexCount |-> readU32(buf, 12),
                      frameCount |-> readU32(buf, 16),
                      durationMs |-> readU64(buf, 20)]]

\* MrrFooter.fromBuffer(buf)
MrrFooterFromBuffer(buf) ==
    IF Len(buf) < FOOTER_SIZE
    THEN [error |-> "FooterTooSmall", footer |-> NoFooter]
    ELSE IF subarray(buf, 0, 4) # MRR_FOOTER_MAGIC
    THEN [error |-> "BadFooterMagic", footer |-> NoFooter]
    ELSE [error |-> "none",
          footer |-> [set |-> TRUE,
                      indexOffset |-> readU64(buf, 4),
                      indexCount |-> readU32(buf, 12),
                      frameCount |-> readU32(buf, 16),
                      durationMs |-> readU64(buf, 20)]]

\* A frame that was never filled in.
NoFrame ==
    [timestampMs |-> 0, flags |-> 0, data |-> <<>>, stateNull |-> TRUE,
     stateDelta |-> <<>>, at |-> 0, dataLen |-> 0, stateLen |-> 0]

\* MrrFrame.fromBuffer() that takes any set flag bit for the state flag.
MrrFrameFromBuffer_anyFlag(buf, offset) ==
    LET failed == [error |-> "RangeError", frame |-> NoFrame, bytesRead |-> 0]
        timestampMs == readU64(buf, offset)
        flags == readUInt8(buf, offset + 8)
        dataLen == readU32(buf, offset + 9)
        stateAt == offset + 13 + dataLen
        stateLen == readU32(buf, stateAt)
    IN IF timestampMs = RangeError \/ flags = RangeError
          \/ dataLen = RangeError
       THEN failed
       ELSE IF flags = 0
       THEN [error |-> "none",
             frame |-> [NoFrame EXCEPT
                           !.timestampMs = timestampMs,
                           !.data = subarray(buf, offset + 13, stateAt),
                           !.at = offset, !.dataLen = dataLen],
             bytesRead |-> stateAt]
       ELSE IF stateLen = RangeError THEN failed
       ELSE [error |-> "none",
             frame |-> [timestampMs |-> timestampMs, flags |-> flags,
                        data |-> subarray(buf, offset + 13, stateAt),
                        stateNull |-> FALSE,
                        stateDelta |-> subarray(buf, stateAt + 4,
                                                stateAt + 4 + stateLen),
                        at |-> offset, dataLen |-> dataLen,
                        stateLen |-> stateLen],
             bytesRead |-> stateAt + 4 + stateLen]

\* MrrFrame.fromBuffer(buf, offset): the error thrown, the frame and
\* bytesRead.  stateNull says that stateDelta is null; at, dataLen and
\* stateLen record the offset the frame was decoded at and the two length
\* fields as read.
MrrFrameFromBuffer(buf, offset) ==
    LET failed == [error |-> "RangeError", frame |-> NoFrame, bytesRead |-> 0]
        timestampMs == readU64(buf, offset)
        flags == readUInt8(buf, offset + 8)
        dataLen == readU32(buf, offset + 9)
        dataAt == offset + 13
    IN IF timestampMs = RangeError \/ flags = RangeError
          \/ dataLen = RangeError
       THEN failed
       ELSE LET data == subarray(buf, dataAt, dataAt + dataLen)
                stateAt == dataAt + dataLen
            IN IF flags % (2 * FRAME_FLAG_HAS_STATE) >= FRAME_FLAG_HAS_STATE
               THEN LET stateLen == readU32(buf, stateAt)
                    IN IF stateLen = RangeError THEN failed
                       ELSE [error |-> "none",
                             frame |->
                               [timestampMs |-> timestampMs,
                                flags |-> flags,
                                data |-> data,
                                stateNull |-> FALSE,
                                stateDelta |->
                                    subarray(buf, stateAt + 4,
                                             stateAt + 4 + stateLen),
                                at |-> offset,
                                dataLen |-> dataLen,
                                stateLen |-> stateLen],
                             bytesRead |-> stateAt + 4 + stateLen]
               ELSE [error |-> "none",
                     frame |-> [timestampMs |-> timestampMs,
                                flags |-> flags,
                                data |-> data,
                                stateNull |-> TRUE,
                                stateDelta |-> <<>>,
                                at |-> offset,
                                dataLen |-> dataLen,
                                stateLen |-> 0],
                     bytesRead |-> stateAt]

\* new MrrReader(filePath) once the file's bytes are known.
MrrReader(buffer) ==
    [buffer |-> buffer, header |-> NoHeader, footer |-> NoFooter,
     capabilities |-> "null", initialState |-> "null",
     currentOffset |-> 0, currentFrame |-> 0, error |-> "none"]

\* MrrReader.load(): the reader afterwards; error is what the call threw.
MrrReaderLoad(r) ==
    LET h == MrrHeaderFromBuffer(r.buffer)
        f == MrrFooterFromBuffer(
                 subarray(r.buffer, Len(r.buffer) - FOOTER_SIZE,
                          Len(r.buffer)))
        capabilities ==
            JsonParse(subarray(r.buffer, h.header.capabilitiesOffset,
                               h.header.capabilitiesOffset
                                   + h.header.capabilitiesLen))
        initialState ==
            JsonParse(subarray(r.buffer, h.header.initialStateOffset,
                               h.header.initialStateOffset
                                   + h.header.initialStateLen))
    IN IF h.error # "none" THEN [r EXCEPT !.error = h.error]
       ELSE IF f.error # "none"
       THEN [r EXCEPT !.header = h.header, !.error = f.error]
       ELSE IF capabilities = "SyntaxError"
       THEN [r EXCEPT !.header = h.header, !.footer = f.footer,
                      !.error = "SyntaxError"]
       ELSE IF initialState = "SyntaxError"
       THEN [r EXCEPT !.header = h.header, !.footer = f.footer,
                      !.capabilities = capabilities,
                      !.error = "SyntaxError"]
       ELSE [r EXCEPT !.header = h.header, !.footer = f.footer,
                      !.capabilities = capabilities,
                      !.initialState = initialState,
                      !.currentOffset = h.header.framesOffset,
                      !.currentFrame = 0]

\* readFrame() that also returns null once the cursor is at or past the end
\* of the buffer.
readFrame_stopsAtEof(r) ==
    IF r.currentFrame >= r.footer.frameCount
       \/ r.currentOffset >= Len(r.buffer)
    THEN [reader |-> r, null |-> TRUE, frame |-> NoFrame]
    ELSE LET d == MrrFrameFromBuffer(r.buffer, r.currentOffset)
         IN IF d.error # "none"
            THEN [reader |-> [r EXCEPT !.error = d.error], null |-> FALSE,
                  frame |-> NoFrame]
            ELSE [reader |-> [r EXCEPT !.currentOffset = d.bytesRead,
                                       !.currentFrame = r.currentFrame + 1],
                  null |-> FALSE, frame |-> d.frame]

\* MrrReader.readFrame(): the reader afterwards (error: what it threw),
\* whether it returned null, and the frame it returned otherwise.
readFrame(r) ==
    IF r.currentFrame >= r.footer.frameCount
    THEN [reader |-> r, null |-> TRUE, frame |-> NoFrame]
    ELSE LET d == MrrFrameFromBuffer(r.buffer, r.currentOffset)
         IN IF d.error # "none"
            THEN [reader |-> [r EXCEPT !.error = d.error], null |-> FALSE,
                  frame |-> NoFrame]
            ELSE [reader |-> [r EXCEPT !.currentOffset = d.bytesRead,
                                       !.currentFrame = r.currentFrame + 1],
                  null |-> FALSE, frame |-> d.frame]

\* The for-of loop of MrrPlayer.load() over reader.frames(), after rewind():
\* frames are pushed until readFrame() returns null or throws.
RECURSIVE Preload(_, _)
Preload(r, frames) ==
    LET next == readFrame(r)
    IN IF next.null \/ next.reader.error # "none"
       THEN [reader |-> next.reader, frames |-> frames]
       ELSE Preload(next.reader, Append(frames, next.frame))

\* MrrReader.rewind()
rewind(r) ==
    [r EXCEPT !.currentOffset = r.header.framesOffset, !.currentFrame = 0]

\* ------------------------------------------------------- recording buffers
\* The buffers the decoder is run on: recordings laid out as the format
\* says (header, capabilities, initial state, frames, footer), and the same
\* recordings with one part damaged.

\* n bytes, little-endian, of v.
RECURSIVE Encode(_, _)
Encode(v, n) ==
    IF n = 0 THEN <<>> ELSE <<v % 256>> \o Encode(v \div 256, n - 1)

Fill(byte, n) == [i \in 1..n |-> byte]

\* A recorded frame: its flags byte, and how much more than was written
\* its data-length and state-length fields declare.  The i-th frame has a
\* payload of i - 1 bytes and, when bit 0 of its flags is set, a state
\* delta of 1 byte (odd i) or none (even i).
FrameFlags == {0, 1, 2, 3}

FrameSpecs == [flags : FrameFlags, dataLie : {0}, stateLie : {0}]

DataBytes(i) == i - 1
StateBytes(i) == i % 2

FrameLists == SeqsUpTo(FrameSpecs, MaxLen)

\* Timestamp of the i-th recorded frame (two bytes long from the second on).
FrameStamp(i) == 254 + i

FrameBytes(spec, i) ==
    Encode(FrameStamp(i), 8) \o <<spec.flags>>
        \o Encode(DataBytes(i) + spec.dataLie, 4) \o Fill(68, DataBytes(i))
        \o (IF spec.flags % 2 = 1
            THEN Encode(StateBytes(i) + spec.stateLie, 4)
                     \o Fill(83, StateBytes(i))
            ELSE <<>>)

RECURSIVE FramesBytes(_, _)
FramesBytes(specs, i) ==
    IF i > Len(specs) THEN <<>>
    ELSE FrameBytes(specs[i], i) \o FramesBytes(specs, i + 1)

EmptyObject == <<123, 125>>

\* The recording with these frames, described field by field.
Recording(specs) ==
    LET body == EmptyObject \o EmptyObject \o FramesBytes(specs, 1)
    IN [magic |-> MRR_MAGIC, version |-> MRR_VERSION,
        capabilitiesOffset |-> HEADER_SIZE, capabilitiesLen |-> 2,
        initialStateOffset |-> HEADER_SIZE + 2, initialStateLen |-> 2,
        framesOffset |-> HEADER_SIZE + 4,
        body |-> body,
        footerMagic |-> MRR_FOOTER_MAGIC,
        frameCount |-> Len(specs), durationMs |-> Len(specs),
        padding |-> Fill(0, 4),
        length |-> HEADER_SIZE + Len(body) + FOOTER_SIZE]

\* The bytes of a described recording.
BufferOf(d) ==
    d.magic \o Encode(d.version, 2) \o Encode(0, 2) \o Encode(1, 4)
        \o Encode(2048, 4) \o Encode(512, 4) \o Encode(16, 4)
        \o Encode(1000, 8)
        \o Encode(d.capabilitiesOffset, 8) \o Encode(d.capabilitiesLen, 4)
        \o Encode(d.initialStateOffset, 8) \o Encode(d.initialStateLen, 4)
        \o Encode(d.framesOffset, 8) \o Fill(0, HEADER_SIZE - 64)
        \o d.body
        \o d.footerMagic \o Encode(0, 8) \o Encode(0, 4)
        \o Encode(d.frameCount, 4) \o Encode(d.durationMs, 8) \o d.padding

\* Magic bytes with the j-th one zeroed.
Flip(magic, j) == [magic EXCEPT ![j] = 0]

Versions == 0..MaxVersion \cup {256}

\* Blob windows that reach past the end of a buffer of the given length:
\* the last two bytes and two more, a window wholly outside, and a window
\* from the end of the header to past the end.
Windows(length) ==
    { [offset |-> length - 2, len |-> 4],
      [offset |-> length + 4, len |-> 2],
      [offset |-> HEADER_SIZE, len |-> length] }

Paddings == {Fill(0, 4), <<32, 32>> \o EmptyObject}

\* The recording and its damaged versions.
Damaged(specs) ==
    LET d == Recording(specs)
    IN {d}
       \cup {[d EXCEPT !.magic = Flip(MRR_MAGIC, j)] : j \in 1..4}
       \cup {[d EXCEPT !.footerMagic = Flip(MRR_FOOTER_MAGIC, j)] :
                j \in 1..4}
       \cup {[d EXCEPT !.version = v] : v \in Versions}
       \cup {[d EXCEPT !.version = v,
                       !.footerMagic = Flip(MRR_FOOTER_MAGIC, 4)] :
                v \in Versions}
       \cup {[d EXCEPT !.frameCount = n] :
                n \in {Len(specs) + 1, Len(specs) + 3,
                       MathMax(Len(specs) - 1, 0)}}
       \cup {[d EXCEPT !.framesOffset = d.length, !.frameCount = 1]}
       \cup {[d EXCEPT !.capabilitiesOffset = w.offset,
                       !.capabilitiesLen = w.len, !.padding = p] :
                w \in Windows(d.length), p \in Paddings}
       \cup {[d EXCEPT !.initialStateOffset = w.offset,
                       !.initialStateLen = w.len, !.padding = p] :
                w \in Windows(d.length), p \in Paddings}

\* The frame lists with one frame's data-length or state-length field
\* declaring more than was written.
Lies == {1, 40}

Lying(specs) ==
    {[specs EXCEPT ![i].dataLie = e] : i \in 1..Len(specs), e \in Lies}
    \cup {[specs EXCEPT ![i].stateLie = e] :
             i \in {j \in 1..Len(specs) : specs[j].flags % 2 = 1},
             e \in Lies}

\* Files cut short: the bytes of a whole recording without its last k.
Cuts == {1, FOOTER_SIZE, FOOTER_SIZE + HEADER_SIZE}

Buffers ==
    UNION {{BufferOf(d) : d \in Damaged(specs)} : specs \in FrameLists}
    \cup UNION {{BufferOf(Recording(lie)) : lie \in Lying(specs)} :
                   specs \in FrameLists}
    \cup {SubSeq(BufferOf(Recording(specs)), 1,
                 MathMax(Recording(specs).length - k, 0)) :
             specs \in FrameLists, k \in Cuts}

\* ------------------------------------------------------ decoding one file
\* metadata = {} of listRecordings().
NoMetadata ==
    [set |-> FALSE, durationMs |-> 0, frameCount |-> 0, spokesPerRev |-> 0,
     radarBrand |-> 0]

\* new MrrPlayer(...) for a file with these bytes, before load(): its
\* reader, its own frames, frameCount and radarId, where load() stands (pc),
\* and what listRecordings() found for the file.
NewLoad(buffer) ==
    [reader |-> MrrReader(buffer), pc |-> "new", frames |-> <<>>,
     frameCount |-> 0, radarId |-> "null", listed |-> FALSE,
     metadata |-> NoMetadata]

\* No file is being decoded.
NoDecode == NewLoad(<<>>)

\* ------------------------------------------------------------------- Init
Init ==
    /\ players = <<>>
    /\ player = 0
    /\ loadWaits = 0
    /\ res = 0
    /\ op = "none"
    /\ sink = [player |-> 0, frame |-> -1, tick |-> 0, ok |-> TRUE]
    /\ rd = NoDecode

\* ---------------------------------------------------------------- actions
\* play, pause, stop or settings with no current player: 400.
NoPlayer(o) ==
    /\ op' = o
    /\ res' = 400
    /\ sink' = NoEmit
    /\ UNCHANGED rd
    /\ UNCHANGED <<players, player, loadWaits>>

\* POST /playback/load, lines 264-272: no filename, or no such file.
LoadRejected ==
    /\ op' = "load"
    /\ \E code \in {400, 404} : res' = code
    /\ sink' = NoEmit
    /\ UNCHANGED rd
    /\ UNCHANGED <<players, player, loadWaits>>

\* Lines 283-297: construct the new player, load it, respond.  The awaits
\* in between settle in the same turn of the event loop.
CreateAndLoad(file) ==
    /\ players' = Append(IF player = 0 THEN players
                          ELSE [players EXCEPT ![player] = Release(@)],
                          load(MrrPlayer, file))
    /\ player' = Len(players) + 1
    /\ op' = "load"
    /\ res' = IF FileOk(file) THEN 200 ELSE 500
    /\ sink' = NoEmit
    /\ UNCHANGED rd

\* POST /playback/load with no current player: lines 283-297 at once.
LoadNew(files, cap) ==
    /\ player = 0
    /\ Len(players) + loadWaits < cap
    /\ \E file \in files : CreateAndLoad(file)
    /\ UNCHANGED loadWaits

LoadFresh == LoadNew(PluginFiles, MaxPlayers)

\* The only load of a run that follows one player from construction on.
LoadFirst == LoadNew(Files, 1)

\* POST /playback/load with a current player, lines 275-281: stop it, drop
\* it, and wait 100 ms before going on.
LoadReplace ==
    /\ player # 0
    /\ Len(players) + loadWaits < MaxPlayers
    /\ players' = [players EXCEPT ![player] = Release(stop(@))]
    /\ player' = 0
    /\ loadWaits' = loadWaits + 1
    /\ op' = "load"
    /\ res' = 0
    /\ sink' = NoEmit
    /\ UNCHANGED rd

\* The 100 ms wait of a load is over: lines 283-297.
LoadResume ==
    /\ loadWaits > 0
    /\ loadWaits' = loadWaits - 1
    /\ \E file \in PluginFiles : CreateAndLoad(file)

\* POST /playback/play
PlayReq ==
    IF player = 0 THEN NoPlayer("play")
    ELSE \E ok \in BOOLEAN :
         LET r == play(players[player], ok)
         IN /\ players' = [players EXCEPT ![player] = r.pl]
            /\ sink' = Emit(player, r, ok)
            /\ UNCHANGED rd
            /\ op' = "play"
            /\ res' = IF r.threw THEN 500 ELSE 200
            /\ UNCHANGED <<player, loadWaits>>

\* POST /playback/pause
PauseReq ==
    IF player = 0 THEN NoPlayer("pause")
    ELSE /\ players' = [players EXCEPT ![player] = pause(players[player])]
         /\ op' = "pause"
         /\ res' = 200
         /\ sink' = NoEmit
         /\ UNCHANGED rd
         /\ UNCHANGED <<player, loadWaits>>

\* POST /playback/stop
StopReq ==
    IF player = 0 THEN NoPlayer("stop")
    ELSE /\ players' = [players EXCEPT ![player] = Release(stop(@))]
         /\ player' = 0
         /\ op' = "stop"
         /\ res' = 200
         /\ sink' = NoEmit
         /\ UNCHANGED rd
         /\ UNCHANGED loadWaits

\* PUT /playback/settings; loopPlayback "other" is any non-boolean value.
SettingsReq ==
    \E loopPlayback \in {"true", "false", "other"} :
        IF player = 0 THEN NoPlayer("settings")
        ELSE /\ players' =
                  IF loopPlayback = "other" THEN players
                  ELSE [players EXCEPT ![player].loop = (loopPlayback = "true")]
             /\ op' = "settings"
             /\ res' = 200
             /\ sink' = NoEmit
             /\ UNCHANGED rd
             /\ UNCHANGED <<player, loadWaits>>

\* A timer of instance p fires: the callback armed at line 544 or line 547.
TimerFire ==
    \E p \in 1..Len(players) : \E i \in 1..Len(players[p].pending) :
      \E ok \in BOOLEAN :
        LET t == players[p].pending[i]
            pl == Fired(players[p], i)
            r == IF t.kind = "restart" THEN restart(pl, ok)
                 ELSE scheduleNextFrame(pl, ok)
        IN /\ players' = [players EXCEPT ![p] = r.pl]
           /\ sink' = Emit(p, r, ok)
           /\ UNCHANGED rd
           /\ op' = "timer"
           /\ res' = 0
           /\ UNCHANGED <<player, loadWaits>>

Next ==
    \/ LoadRejected
    \/ LoadFresh
    \/ LoadReplace
    \/ LoadResume
    \/ PlayReq
    \/ PauseReq
    \/ StopReq
    \/ SettingsReq
    \/ TimerFire

\* The plugin: any number of loads (up to MaxPlayers instances) of the
\* plugin-level files, under every interleaving of requests and timers.
Spec == Init /\ [][Next]_vars

\* One MrrPlayer from its load on, over every file of Files.
NextPlayer ==
    \/ LoadRejected
    \/ LoadFirst
    \/ PlayReq
    \/ PauseReq
    \/ StopReq
    \/ SettingsReq
    \/ TimerFire

PlayerSpec == Init /\ [][NextPlayer]_vars

\* The same player under Node's timers: a callback that stays armed is
\* eventually run.
FairPlayerSpec == PlayerSpec /\ WF_vars(TimerFire)

\* ---------------------------------------------------------- the decoder
InitReader ==
    /\ players = <<>>
    /\ player = 0
    /\ loadWaits = 0
    /\ res = 0
    /\ op = "none"
    /\ sink = [player |-> 0, frame |-> -1, tick |-> 0, ok |-> TRUE]
    /\ \E buffer \in Buffers : rd = NewLoad(buffer)

\* MrrPlayer.load() up to its await: this.reader.load().
ReaderLoad ==
    /\ rd.pc = "new"
    /\ LET r == MrrReaderLoad(rd.reader)
       IN rd' = [rd EXCEPT !.reader = r,
                           !.pc = IF r.error = "none" THEN "read"
                                  ELSE "failed"]
    /\ UNCHANGED <<players, player, loadWaits, op, res, sink>>

\* MrrPlayer.load() after the await, lines 437-458: the metadata, the frame
\* loop, and the radar id once the loop has ended without throwing.
PreloadFrames ==
    /\ rd.pc = "read"
    /\ LET p == Preload(rewind(rd.reader), <<>>)
       IN rd' = [rd EXCEPT !.reader = p.reader,
                           !.frameCount = rd.reader.footer.frameCount,
                           !.frames = p.frames,
                           !.radarId = IF p.reader.error = "none" THEN "set"
                                       ELSE "null",
                           !.pc = IF p.reader.error = "none" THEN "loaded"
                                  ELSE "failed"]
    /\ UNCHANGED <<players, player, loadWaits, op, res, sink>>

\* listRecordings(), lines 367-387: header and footer of the file, or no
\* metadata when either throws.
ListRecordings ==
    /\ ~rd.listed
    /\ LET buf == rd.reader.buffer
           h == MrrHeaderFromBuffer(buf)
           f == MrrFooterFromBuffer(
                    subarray(buf, Len(buf) - FOOTER_SIZE, Len(buf)))
       IN rd' = [rd EXCEPT
                    !.listed = TRUE,
                    !.metadata =
                        IF h.error # "none" \/ f.error # "none"
                        THEN NoMetadata
                        ELSE [set |-> TRUE,
                              durationMs |-> f.footer.durationMs,
                              frameCount |-> f.footer.frameCount,
                              spokesPerRev |-> h.header.spokesPerRev,
                              radarBrand |-> h.header.radarBrand]]
    /\ UNCHANGED <<players, player, loadWaits, op, res, sink>>

NextReader ==
    \/ ReaderLoad
    \/ PreloadFrames
    \/ ListRecordings

\* The decoder: one file, any of Buffers, listed and loaded.
ReaderSpec == InitReader /\ [][NextReader]_vars

\* ------------------------------------------------------------------ claims
\* The instances constructed so far.
Instances == 1..Len(players)

\* C1: a load request that finds a current player stops it before any new
\* player is constructed (the handler then waits, the plugin holding no
\* player), and an instance whose stop() has run has no armed timer, is not
\* playing, and hands no frame to the sink in any later step.
C1_OldPlayerCancelled ==
    [][/\ \A p \in 1..Len(players') :
            players'[p].stopped =>
                /\ players'[p].pending = <<>>
                /\ ~players'[p].playing
                /\ sink'.player # p
       /\ (op' = "load" /\ res' = 0) =>
                /\ player # 0
                /\ players'[player].stopped
                /\ Len(players') = Len(players)
                /\ player' = 0]_vars

\* C1 witness: a player whose stop() cancelled an armed timer, while the
\* player loaded after it is delivering frames from its own timer.
C1_NewPlaysAfterOldCancelled ==
    \E p \in Instances :
        /\ players[p].stopped /\ players[p].cut
        /\ player \notin {0, p}
        /\ players[player].playing
        /\ op = "timer" /\ sink.player = player

\* C2: every instance that has a timer armed, and so will deliver frames,
\* is the one the plugin's `player` variable refers to (so at most one
\* instance is active and none is orphaned).
C2_OnlyCurrentPlayerActive ==
    \A p \in Instances : players[p].pending # <<>> => p = player

\* C3: an instance never has more than one callback pending.
C3_OneCallbackPending ==
    \A p \in Instances : Len(players[p].pending) <= 1

\* C3 witness: a play request answered while the player was playing with
\* its callback pending; it delivered nothing and one callback is pending.
C3_PlayWhilePending ==
    /\ op = "play" /\ res = 200 /\ player # 0
    /\ sink.player = 0
    /\ players[player].playing
    /\ Len(players[player].pending) = 1

\* C4: an instance that is not playing has no callback armed, and a step
\* that starts with it not playing hands one of its frames to the sink only
\* if the step is a play request.
C4_PausedNeverFires ==
    [][\A p \in 1..Len(players') :
          /\ ~players'[p].playing => players'[p].pending = <<>>
          /\ (p <= Len(players) /\ ~players[p].playing /\ sink'.player = p)
                => op' = "play"]_vars

\* C4 witness: pause() cancelled an armed callback, the player is still
\* paused and another request has been served since.
C4_PausedWhilePending ==
    \E p \in Instances :
        /\ players[p].cut /\ ~players[p].stopped /\ ~players[p].playing
        /\ players[p].currentFrame >= 1
        /\ op = "settings"

\* C5: a stop request served with a current player leaves that player with
\* no callback, not playing, at frame 0 and 0 ms, and the plugin with no
\* player and status idle; and the step after a served stop hands no frame
\* to the sink.
C5_StopResetsAndSilences ==
    [][/\ (op' = "stop" /\ player # 0) =>
            /\ players'[player].pending = <<>>
            /\ ~players'[player].playing
            /\ players'[player].currentFrame = 0
            /\ players'[player].positionMs = 0
            /\ player' = 0
            /\ Status'.state = "idle"
       /\ (op = "stop" /\ res = 200) => sink'.player = 0]_vars

\* C6: every frame an instance hands to the sink is frame 0 if it has
\* delivered none so far, and otherwise the successor, modulo the number of
\* frames, of the frame it delivered last.
C6_FramesInStoredOrder ==
    [][\A p \in Instances :
          sink'.player = p =>
              LET n == Len(players[p].frames)
                  prev == players[p].last
              IN /\ n >= 1
                 /\ sink'.frame = IF prev = -1 THEN 0 ELSE (prev + 1) % n
                 /\ players'[p].last = sink'.frame]_vars

\* C6 witness: a play request that resumed a paused player past frame 0.
C6_ResumedMidPass ==
    /\ op = "play" /\ player # 0
    /\ sink.player = player /\ sink.frame >= 1

\* C7: play() on a loaded player (frame 0, not playing, at least one frame)
\* delivers frame 0 in the same step; the step that delivers a frame with a
\* successor leaves exactly one callback armed, with the timestamp delta as
\* delay, or 1 when the delta is below 1; the step that delivers the last
\* frame with looping on leaves exactly the restart armed, with delay 100.
C7_DeliveryDelays ==
    [][/\ ( /\ op' = "play" /\ player # 0
            /\ ~players[player].playing
            /\ players[player].currentFrame = 0
            /\ Len(players[player].frames) >= 1 )
          => (sink'.player = player /\ sink'.frame = 0)
       /\ \A p \in Instances :
            sink'.player = p =>
                LET ts == players[p].frames
                    i == sink'.frame + 1
                IN IF i < Len(ts)
                   THEN players'[p].pending =
                            << [kind |-> "frame",
                                delay |-> IF ts[i + 1] - ts[i] < 1 THEN 1
                                          ELSE ts[i + 1] - ts[i],
                                held |-> TRUE] >>
                   ELSE players'[p].loop =>
                            players'[p].pending =
                                << [kind |-> "restart", delay |-> 100,
                                    held |-> TRUE] >>]_vars

\* C7 witness: a frame whose successor carries a smaller timestamp has been
\* delivered and the successor is armed with delay 1.
C7_ClampedDelay ==
    \E p \in Instances :
        LET pl == players[p]
        IN /\ pl.playing
           /\ pl.currentFrame >= 1 /\ pl.currentFrame < Len(pl.frames)
           /\ pl.frames[pl.currentFrame + 1] < pl.frames[pl.currentFrame]
           /\ sink.player = p
           /\ Len(pl.pending) = 1 /\ pl.pending[1].delay = 1

\* C8: while an instance is playing with looping off, and looping stays off
\* in the step, no step delivers its frame 0 (the wraparound is prevented).
C8_NoWrapOnceLoopOff ==
    [][\A p \in Instances :
          (players[p].playing /\ ~players[p].loop /\ ~players'[p].loop)
              => ~(sink'.player = p /\ sink'.frame = 0)]_vars

\* C9, for the Finished state: a play request on a loaded recording with at
\* least one frame that has finished (non-looping playback exhausted the
\* frames, no play() since) leaves it playing, with a frame delivered in the
\* step or a delivery pending, whatever the loop flag is.
C9_PlayStartsPlaying ==
    [][( /\ op' = "play" /\ player # 0
         /\ players[player].radarId = "set"
         /\ Len(players[player].frames) >= 1
         /\ players[player].finished /\ ~players[player].playing )
       => /\ players'[player].playing
          /\ (sink'.player = player \/ players'[player].pending # <<>>)]_vars

\* C10: once non-looping playback has delivered the last frame, getStatus()
\* reports a state that is neither paused nor loaded nor playing, with the
\* frame index at frameCount and positionMs at the last frame's timestamp.
C10_FinishedIsReported ==
    \A p \in Instances :
        LET pl == players[p]
        IN ( /\ pl.finished /\ pl.radarId = "set"
             /\ Len(pl.frames) >= 1 )
           => /\ getStatus(pl).state \notin {"playing", "paused", "loaded"}
              /\ getStatus(pl).frame = getStatus(pl).frameCount
              /\ getStatus(pl).positionMs = pl.frames[Len(pl.frames)]

\* C11: a delivery whose sink call throws leaves the player exactly where a
\* successful delivery leaves it: the frame index one past the delivered
\* frame, positionMs at its timestamp, and then either still playing with
\* the one callback armed at the usual delay (timestamp delta clamped to 1,
\* or the 100 ms restart when looping), or finished when the last frame of
\* a non-looping recording was delivered.
C11_SinkErrorIgnored ==
    [][\A p \in Instances :
          (sink'.player = p /\ ~sink'.ok) =>
              LET ts == players[p].frames
                  i == sink'.frame + 1
                  after == players'[p]
              IN /\ after.currentFrame = i
                 /\ after.positionMs = ts[i]
                 /\ IF i < Len(ts)
                    THEN /\ after.playing
                         /\ after.pending =
                              << [kind |-> "frame",
                                  delay |-> MathMax(1, ts[i + 1] - ts[i]),
                                  held |-> TRUE] >>
                    ELSE IF after.loop
                    THEN /\ after.playing
                         /\ after.pending =
                              << [kind |-> "restart", delay |-> 100,
                                  held |-> TRUE] >>
                    ELSE ~after.playing /\ after.pending = <<>>]_vars

\* C11 witness: a timer callback handed a frame with a successor to a sink
\* that threw, and the player is still playing with the successor armed.
C11_ThrewAndStillPlaying ==
    /\ op = "timer" /\ player # 0
    /\ sink.player = player /\ ~sink.ok
    /\ players[player].playing
    /\ players[player].currentFrame < Len(players[player].frames)
    /\ Len(players[player].pending) = 1

\* C12: a load that fails (the response is 500) leaves no recording loaded:
\* the plugin has no current player and the status is idle, and no step
\* ever hands the sink a frame of an instance whose load did not complete.
C12_FailedLoadLoadsNothing ==
    [][/\ (op' = "load" /\ res' = 500)
            => (player' = 0 /\ Status'.state = "idle")
       /\ \A p \in Instances :
            sink'.player = p => players[p].radarId = "set"]_vars

\* ------------------------------------------------------ decoder properties
\* The buffer being decoded, and whether its magic bytes are wrong.
Buf == rd.reader.buffer

BadHeaderMagic == subarray(Buf, 0, 4) # MRR_MAGIC

BadFooterMagic ==
    subarray(subarray(Buf, Len(Buf) - FOOTER_SIZE, Len(Buf)), 0, 4)
        # MRR_FOOTER_MAGIC

\* C13: a load that succeeds has no frame whose payload or state delta is
\* shorter than the length field read for it (a length field that asks for
\* more bytes than remain makes the decode fail).
C13_NoShortPayload ==
    rd.pc = "loaded" =>
        \A i \in 1..Len(rd.frames) :
            /\ Len(rd.frames[i].data) = rd.frames[i].dataLen
            /\ ~rd.frames[i].stateNull =>
                   Len(rd.frames[i].stateDelta) = rd.frames[i].stateLen

\* C14: when the first 4 bytes of the buffer are not "MRR1" or the first 4
\* bytes of its last 32 are not "MRRF", load() never gets past
\* reader.load(): it fails with an error and the player is given no
\* footer, no frame count, no frame and no radar id, and listRecordings()
\* gets no metadata for the file.
C14_BadMagicRejected ==
    (BadHeaderMagic \/ BadFooterMagic) =>
        /\ rd.pc \in {"new", "failed"}
        /\ rd.pc = "failed" => rd.reader.error # "none"
        /\ ~rd.reader.footer.set
        /\ rd.frames = <<>> /\ rd.frameCount = 0 /\ rd.radarId = "null"
        /\ ~rd.metadata.set

\* C14 witness: a file whose header is right and whose footer magic is not
\* has been listed and loaded, and the load failed on the footer.
C14_FooterMagicFailed ==
    /\ ~BadHeaderMagic /\ BadFooterMagic
    /\ Len(Buf) >= HEADER_SIZE + FOOTER_SIZE
    /\ rd.pc = "failed" /\ rd.reader.error = "BadFooterMagic"
    /\ rd.listed

\* C15: for a buffer that holds a whole header with valid magic,
\* reader.load() fails with the unsupported-version error exactly when the
\* 16-bit version is greater than 1, whatever the rest of the header and
\* the footer hold; it has then set neither header nor footer.
C15_VersionCheckedFirst ==
    ( /\ Len(Buf) >= HEADER_SIZE /\ ~BadHeaderMagic
      /\ rd.pc # "new" ) =>
        LET version == Buf[5] + 256 * Buf[6]
        IN /\ (rd.reader.error = "UnsupportedVersion") <=> (version > 1)
           /\ version > 1 =>
                  /\ rd.pc = "failed"
                  /\ ~rd.reader.header.set /\ ~rd.reader.footer.set

\* C15 witness: a file with version 256 (low byte 0) and a bad footer magic
\* was rejected for its version.
C15_HighByteVersionRejected ==
    /\ Len(Buf) >= HEADER_SIZE /\ ~BadHeaderMagic /\ BadFooterMagic
    /\ Buf[5] = 0 /\ Buf[6] = 1
    /\ rd.pc = "failed" /\ rd.reader.error = "UnsupportedVersion"

\* C16: when the capabilities window or the initial-state window of the
\* header reaches past the end of the buffer, the load fails.
C16_WindowPastEndFails ==
    LET h == rd.reader.header
    IN ( /\ h.set /\ rd.pc # "new"
         /\ \/ h.capabilitiesOffset + h.capabilitiesLen > Len(Buf)
            \/ h.initialStateOffset + h.initialStateLen > Len(Buf) )
       => rd.pc = "failed"

\* C17: after a successful load the player's frameCount (what getStatus()
\* reports) and the frameCount of the reader's metadata both equal the
\* number of frames the loop pushed.
C17_FrameCountIsFramesLength ==
    rd.pc = "loaded" =>
        /\ rd.frameCount = Len(rd.frames)
        /\ rd.reader.footer.frameCount = Len(rd.frames)
        /\ rd.reader.currentFrame = Len(rd.frames)

\* C17 witness: a load succeeded with two frames or more.
C17_LoadedSeveralFrames ==
    /\ rd.pc = "loaded"
    /\ Len(rd.frames) >= 2
    /\ rd.frameCount = Len(rd.frames)

\* C20: when the cursor is at or past the end of the buffer and the footer
\* declares more frames than were decoded, the frame loop has stopped and
\* the load has succeeded with the frames decoded so far.
C20_EofEndsFrameLoop ==
    ( /\ rd.pc \in {"loaded", "failed"}
      /\ rd.reader.footer.set
      /\ rd.reader.initialState # "null"
      /\ rd.reader.currentOffset >= Len(Buf)
      /\ rd.reader.currentFrame < rd.reader.footer.frameCount )
    => /\ rd.pc = "loaded"
       /\ Len(rd.frames) = rd.reader.currentFrame

\* ------------------------------------------------ scheduler properties (2)
\* C18: a play request while playing delivers nothing and changes nothing;
\* a pause request while not playing changes neither the status nor the
\* pending callbacks; and a play, pause or stop request with no recording
\* loaded is answered as accepted (200) and changes nothing.
C18_Idempotent ==
    [][/\ ( /\ op' = "play" /\ player # 0 /\ players[player].playing )
            => (sink'.player = 0 /\ players' = players)
       /\ ( /\ op' = "pause" /\ player # 0 /\ ~players[player].playing )
            => /\ getStatus(players'[player]) = getStatus(players[player])
               /\ players'[player].pending = players[player].pending
       /\ ( /\ op' \in {"play", "pause", "stop"} /\ player = 0 )
            => (res' = 200 /\ players' = players /\ player' = 0)]_vars

\* C19: while the playback radar is listed, getRadarInfo() and getState()
\* agree, and they report transmit with power 2 exactly when the player is
\* playing with a delivery pending, standby with power 1 otherwise.
C19_TransmitIffDelivering ==
    HasRadar =>
        LET pl == players[player]
            delivering == pl.playing /\ pl.pending # <<>>
        IN /\ getRadarInfo(pl) = getState(pl)
           /\ getRadarInfo(pl) = IF delivering
                                 THEN [status |-> "transmit", power |-> 2]
                                 ELSE [status |-> "standby", power |-> 1]

\* Offset just after a decoded frame, from the fields read for it.
FrameEnd(frame) ==
    frame.at + 13 + frame.dataLen
        + (IF frame.flags % 2 = 1 THEN 4 + frame.stateLen ELSE 0)

\* C21: in a load that succeeded, the first frame was decoded at
\* header.framesOffset and every later frame exactly where its predecessor
\* ended: a frame takes 13 + dataLen bytes, and 4 + stateLen more exactly
\* when bit 0 of its flags is set; stateDelta is null exactly when bit 0 is
\* clear; the cursor ends after the last frame.
C21_FramesBackToBack ==
    rd.pc = "loaded" =>
        /\ \A i \in 1..Len(rd.frames) :
             /\ rd.frames[i].at =
                    IF i = 1 THEN rd.reader.header.framesOffset
                    ELSE FrameEnd(rd.frames[i - 1])
             /\ rd.frames[i].stateNull <=> (rd.frames[i].flags % 2 = 0)
        /\ rd.reader.currentOffset =
               IF rd.frames = <<>> THEN rd.reader.header.framesOffset
               ELSE FrameEnd(rd.frames[Len(rd.frames)])

\* C21 witness: a well-formed recording was loaded whose first frame has
\* flag bit 1 set and bit 0 clear, followed by a frame with a state delta.
C21_OtherFlagBitsSeen ==
    /\ rd.pc = "loaded" /\ Len(rd.frames) >= 2
    /\ rd.frames[1].flags = 2 /\ rd.frames[1].stateNull
    /\ rd.frames[2].flags % 2 = 1 /\ ~rd.frames[2].stateNull
    /\ rd.frames[2].timestampMs = FrameStamp(2)
    /\ Len(rd.frames[2].data) = rd.frames[2].dataLen

\* ------------------------------------------------ scheduler properties (3)
\* The one instance of a run of PlayerSpec is playing a recording of at
\* least one frame with looping off.
PlayingNoLoop ==
    /\ Len(players) >= 1
    /\ players[1].playing /\ ~players[1].loop
    /\ Len(players[1].frames) >= 1

\* It has delivered its last frame and come to rest.
PlayedOut ==
    /\ Len(players) >= 1
    /\ players[1].finished
    /\ players[1].last = Len(players[1].frames) - 1
    /\ ~players[1].playing /\ players[1].pending = <<>>

\* Looping was switched on, or the player was paused, stopped or let go.
Interrupted ==
    /\ Len(players) >= 1
    /\ players[1].loop \/ (~players[1].playing /\ ~players[1].finished)

\* C22: a player that is playing a recording of n >= 1 frames with looping
\* off eventually has delivered its last frame, is not playing and has no
\* callback pending, unless looping is switched on or it is paused or
\* stopped first; and once it is there, no step delivers a frame of it
\* while looping stays off.
C22_NonLoopingPlaysOut ==
    /\ PlayingNoLoop ~> (PlayedOut \/ Interrupted)
    /\ [][(PlayedOut /\ ~players'[1].loop) => sink'.player # 1]_vars

\* C22 witness: a recording of two frames has played out with looping off.
C22_TwoFramesPlayedOut ==
    /\ PlayedOut
    /\ Len(players[1].frames) = 2 /\ ~players[1].loop
    /\ players[1].currentFrame = 2

\* The one instance keeps playing with looping on, and has a frame i.
LoopingOn(i) ==
    /\ Len(players) >= 1
    /\ players[1].playing /\ players[1].loop
    /\ Len(players[1].frames) > i

\* C23: a player that from some point on stays playing with looping on
\* (so is never paused, stopped or replaced) delivers every frame index of
\* its recording infinitely often; and a timer callback that delivers frame
\* 0 does so after the last frame of the previous pass, leaving the frame
\* index at 1 and positionMs at the timestamp of frame 0.
C23_LoopingNeverStops ==
    /\ \A i \in 0..(MaxLen - 1) :
          <>[]LoopingOn(i) => []<>(sink.player = 1 /\ sink.frame = i)
    /\ [][\A p \in Instances :
             (op' = "timer" /\ sink'.player = p /\ sink'.frame = 0)
                 => /\ players[p].last = Len(players[p].frames) - 1
                    /\ players[p].currentFrame = Len(players[p].frames)
                    /\ players'[p].currentFrame = 1
                    /\ players'[p].positionMs = players[p].frames[1]]_vars

\* C23 witness: the restart callback of a looping two-frame recording has
\* delivered frame 0 again.
C23_SecondPassStarted ==
    /\ op = "timer" /\ sink.player = 1 /\ sink.frame = 0
    /\ players[1].playing /\ players[1].loop
    /\ Len(players[1].frames) = 2
    /\ players[1].pending # <<>>

\* C24: every settings request is accepted (200), with or without a
\* recording loaded, and leaves playing, currentFrame, positionMs and the
\* pending callbacks of the current player as they were.
C24_SettingsOnlySetsLoop ==
    [][op' = "settings" =>
          /\ res' = 200
          /\ player' = player
          /\ player # 0 =>
                /\ players'[player].playing = players[player].playing
                /\ players'[player].currentFrame
                       = players[player].currentFrame
                /\ players'[player].positionMs = players[player].positionMs
                /\ players'[player].pending = players[player].pending]_vars

\* C25: in every state (each is a state between operations) a player has a
\* callback pending exactly when its playing flag is set.
C25_PendingIffPlaying ==
    \A p \in Instances :
        players[p].playing <=> (players[p].pending # <<>>)

\* C26: in every state of a player, 0 <= currentFrame <= frames.length,
\* and positionMs is 0 when currentFrame is 0 and the timestamp of frame
\* currentFrame - 1 otherwise; so status 'loaded' comes with frame 0 and
\* positionMs 0.
C26_PositionFollowsFrame ==
    \A p \in Instances :
        LET pl == players[p]
        IN /\ 0 <= pl.currentFrame /\ pl.currentFrame <= Len(pl.frames)
           /\ pl.positionMs = IF pl.currentFrame = 0 THEN 0
                              ELSE pl.frames[pl.currentFrame]
           /\ getStatus(pl).state = "loaded" =>
                  (getStatus(pl).frame = 0 /\ getStatus(pl).positionMs = 0)

\* C26 witness: a player paused after its second frame, whose timestamp is
\* not 0, with positionMs at that timestamp.
C26_PausedMidRecording ==
    /\ player # 0 /\ op = "pause"
    /\ ~players[player].playing
    /\ players[player].currentFrame = 2
    /\ players[player].positionMs = players[player].frames[2]
    /\ players[player].positionMs > 0

\* C27: every play request on a player returns normally (the response is
\* 200), whatever the loop flag and also with an empty frame list; it hands
\* at most one frame to the sink and leaves at most one callback more than
\* before.
C27_PlayReturns ==
    [][(op' = "play" /\ player # 0) =>
          /\ res' = 200
          /\ Len(players'[player].pending)
                 <= Len(players[player].pending) + 1]_vars

\* C28: a load that succeeds leaves a current player with looping on,
\* whatever was set on the players before it; and with no current player
\* the status reports loopPlayback true.
C28_LoopNotCarriedOver ==
    /\ [][(op' = "load" /\ res' = 200) =>
             (player' # 0 /\ players'[player'].loop
              /\ Status'.loopPlayback)]_vars
    /\ [](player = 0 => Status.loopPlayback)

\* C28 witness: a load has just succeeded with looping on while the player
\* that was current before it still has looping off.
C28_LoadedAfterLoopOff ==
    /\ op = "load" /\ res = 200 /\ player # 0
    /\ players[player].loop
    /\ \E q \in Instances : q # player /\ ~players[q].loop

=============================================================================
